---- MODULE Spec2Model ----
(***************************************************************************)
(* A model of bitcoin_gains.py in three specifications:                    *)
(*                                                                         *)
(*   Spec       the cost-basis ledger of main() (lines 382-420): the heap  *)
(*              of lots, total_cost, total_btc and gains.  The sorted list *)
(*              all is fed one transaction at a time: each step takes any  *)
(*              transaction that may follow the one before it;             *)
(*   MatchSpec  the transfer matcher of main() (lines 356-375) over every  *)
(*              sorted list all of up to MaxAll transactions;              *)
(*   MergeSpec  MtGoxParser.merge (lines 198-224) over every group of up   *)
(*              to MaxGroup rows.                                          *)
(*                                                                         *)
(* Amounts are exact integers: usd in cents (the code rounds to 2 places), *)
(* btc in units of 1/UnitsPerBtc coin (the code keeps 8 places, the model  *)
(* a coarser grid).  A price is usd cents per whole coin; the price of a   *)
(* lot is the quotient usd/btc, kept as the pair it comes from (Decimal's  *)
(* 28-digit quotient is taken as exact).  Timestamps are hours.            *)
(* An uncaught exception ends main(): pc = "failed" and err names it.      *)
(***************************************************************************)
EXTENDS Integers, Sequences, FiniteSets, TLC

VARIABLES
    method,      \* parsed_args.method
    pc,          \* position of main(): which loop it is in, or "failed"/"done"
    err,         \* the exception that ended the run, "" while it runs
    lots,        \* Heap.data of lots: a heapq array
    total_cost,  \* main: total_cost
    total_btc,   \* main: total_btc
    gains,       \* main: gains
    t,           \* main: the transaction of the current ledger iteration
    btc,         \* main: the loop variable btc (quantity still to cover)
    usd,         \* main: the fiat value of the current transaction
    nproc,       \* number of transactions the ledger loop has taken
    pre,         \* history: ledger state when the current transaction began
    popped,      \* history: the last lots.pop() of the disposal loop
    all,         \* main: the list all
    deposits,    \* main: the dict deposits (btc -> list of deposits)
    scan,        \* main: list(all), the copy the matcher iterates over
    si,          \* number of elements of scan already visited
    all0,        \* history: all as it was before the matcher ran
    pairs,       \* history: the (withdrawal, deposit) pairs matched
    group,       \* MtGoxParser.merge: the argument transactions
    merged       \* MtGoxParser.merge: the result

vars == <<method, pc, err, lots, total_cost, total_btc, gains, t, btc, usd,
          nproc, pre, popped, all, deposits, scan, si, all0, pairs, group,
          merged>>

ledgerVars == <<method, lots, total_cost, total_btc, gains, t, btc, usd,
                nproc, pre, popped>>
matchVars == <<all, deposits, scan, si, all0, pairs>>
mergeVars == <<group, merged>>

None == "None"

\* ------------------------------------------------------------- bounds
MaxTx == 4         \* transactions the ledger loop takes in one run
UnitsPerBtc == 2   \* model grid of btc quantities: units per coin
TimeStep == 12     \* hours between two model timestamps

Usd(d) == d * 100                      \* dollars in cents
Coins(c) == c * UnitsPerBtc            \* whole coins in units

Abs(x) == IF x < 0 THEN -x ELSE x

Range(f) == { f[i] : i \in DOMAIN f }

\* cmp() of two integers
Cmp(a, b) == IF a < b THEN -1 ELSE IF a > b THEN 1 ELSE 0

\* roundd: Decimal.quantize under the default context (ROUND_HALF_EVEN) of
\* the quotient num/den (den > 0) to an integer number of the target unit.
roundd(num, den) ==
    LET a == Abs(num)
        q == a \div den
        r == a % den
        m == IF 2 * r > den \/ (2 * r = den /\ q % 2 = 1) THEN q + 1 ELSE q
    IN  IF num < 0 THEN -m ELSE m

\* Transaction.__cmp__
TransactionCmp(left, right) ==
    IF Cmp(left.timestamp, right.timestamp) # 0
    THEN Cmp(left.timestamp, right.timestamp)
    ELSE Cmp(left.id, right.id)

\* ------------------------------------------------------------- lots
Lot(timestamp, b, u, transaction) ==
    [timestamp |-> timestamp, btc |-> b, usd |-> u, transaction |-> transaction]

\* a sell that forgets to reduce the cost basis
SellKeepUsd(self, b) ==
    IF b > self.btc THEN None
    ELSE Lot(self.timestamp, self.btc - b, self.usd, self.transaction)

\* a sell that forgets to reduce the quantity
SellKeepBtc(self, b) ==
    IF b > self.btc THEN None
    ELSE Lot(self.timestamp, self.btc,
             self.usd - roundd(self.usd * b, self.btc), self.transaction)

\* Lot.sell: price * btc is usd * btc / self.btc, rounded to cents
sell(self, b) ==
    IF b > self.btc THEN None
    ELSE Lot(self.timestamp, self.btc - b,
             self.usd - roundd(self.usd * b, self.btc), self.transaction)

\* cmp(left.timestamp, right.timestamp) or cmp(left.transaction, right.transaction)
ByTimestamp(left, right) ==
    IF Cmp(left.timestamp, right.timestamp) # 0
    THEN Cmp(left.timestamp, right.timestamp)
    ELSE TransactionCmp(left.transaction, right.transaction)

\* cmp(right.timestamp, left.timestamp) or cmp(left.transaction, right.transaction)
ByTimestampReversed(left, right) ==
    IF Cmp(right.timestamp, left.timestamp) # 0
    THEN Cmp(right.timestamp, left.timestamp)
    ELSE TransactionCmp(left.transaction, right.transaction)

\* a Lot.__cmp__ with the two orders exchanged
LotCmpSwapped(left, right) ==
    IF method = "lifo" THEN <<ByTimestamp(left, right)>>
    ELSE IF method = "fifo" THEN <<ByTimestampReversed(left, right)>>
    ELSE <<>>

\* Lot.__cmp__: the value returned, as a sequence of one integer; the empty
\* sequence is the None of a method other than fifo and lifo (no branch
\* returns).
LotCmp(left, right) ==
    IF method = "fifo" THEN <<ByTimestamp(left, right)>>
    ELSE IF method = "lifo" THEN <<ByTimestampReversed(left, right)>>
    ELSE <<>>

\* heapq's cmp_lt(x, y) on instances without __lt__: not (y <= x), which
\* calls y.__cmp__(x); a __cmp__ that returns None raises TypeError.
CmpRaises(x, y) == LotCmp(y, x) = <<>>
cmp_lt(x, y) == ~(LotCmp(y, x)[1] <= 0)

\* heapq._siftdown(heap, startpos, pos), positions counted from 0
RECURSIVE SiftdownLoop(_, _, _, _)
SiftdownLoop(heap, startpos, pos, newitem) ==
    IF pos > startpos
    THEN LET parentpos == (pos - 1) \div 2
             parent == heap[parentpos + 1]
         IN  IF cmp_lt(newitem, parent)
             THEN SiftdownLoop([heap EXCEPT ![pos + 1] = parent],
                               startpos, parentpos, newitem)
             ELSE [heap EXCEPT ![pos + 1] = newitem]
    ELSE [heap EXCEPT ![pos + 1] = newitem]

Siftdown(heap, startpos, pos) == SiftdownLoop(heap, startpos, pos, heap[pos + 1])

\* heapq._siftup(heap, pos)
RECURSIVE SiftupLoop(_, _, _, _)
SiftupLoop(heap, startpos, pos, newitem) ==
    LET endpos == Len(heap)
        childpos == 2 * pos + 1
        rightpos == childpos + 1
        c == IF rightpos < endpos
                /\ ~cmp_lt(heap[childpos + 1], heap[rightpos + 1])
             THEN rightpos ELSE childpos
    IN  IF childpos < endpos
        THEN SiftupLoop([heap EXCEPT ![pos + 1] = heap[c + 1]],
                        startpos, c, newitem)
        ELSE Siftdown([heap EXCEPT ![pos + 1] = newitem], startpos, pos)

Siftup(heap, pos) == SiftupLoop(heap, pos, pos, heap[pos + 1])

\* Heap.push: heappush appends, then sifts; the first comparison of the
\* sift raises when Lot.__cmp__ returns None.
PushRaises(heap, item) ==
    Len(heap) > 0 /\ CmpRaises(item, heap[((Len(heap) - 1) \div 2) + 1])

PushNoSift(heap, item) == Append(heap, item)

push(heap, item) == Siftdown(Append(heap, item), 0, Len(heap))

\* Heap.pop on a non-empty heap: the item returned and the heap left
PopItem(heap) == IF Len(heap) = 1 THEN heap[Len(heap)] ELSE heap[1]

PopRest(heap) ==
    LET lastelt == heap[Len(heap)]
        rest == SubSeq(heap, 1, Len(heap) - 1)
    IN  IF Len(rest) > 0 THEN Siftup([rest EXCEPT ![1] = lastelt], 0) ELSE rest

\* ------------------------------------------------------------- price oracle
\* fmv(): prices.get(date, 100) over a table that holds day 0 at 300.00
DateOf(timestamp) == timestamp \div 24

fmv(timestamp) == IF DateOf(timestamp) = 0 THEN Usd(300) ELSE Usd(100)

\* ------------------------------------------------------------- transactions
\* Transaction.__init__; uid is the identity of the object.  price 0 stands
\* for both None and Decimal(0): every reader tests it for truth only.
Transaction(uid, timestamp, type, b, u, price, fee_usd, id) ==
    [uid |-> uid, timestamp |-> timestamp, type |-> type, btc |-> b,
     usd |-> u, price |-> price, fee_usd |-> fee_usd, id |-> id]

Methods == {"fifo", "lifo", "lowest", "highest"}

\* the (type, btc, usd, price, fee_usd) of the transactions the ledger is fed
LedgerShapes ==
    { <<"trade", Coins(1), -Usd(100), 0, 0>>,
      <<"trade", Coins(1), -Usd(200), 0, 0>>,
      <<"trade", -(Coins(1) + 1), Usd(450), 0, 0>>,
      <<"trade", -Coins(1), Usd(349), 0, Usd(1)>>,
      <<"trade", 0, Usd(200), 0, 0>>,
      <<"deposit", Coins(1), 0, 0, 0>>,
      <<"deposit", Coins(1), 0, Usd(250) + 1, 0>>,
      <<"withdraw", -1, 0, 0, 0>> }

\* all is sorted (line 388): the next transaction has the timestamp of the
\* one before it or a later one; ids grow in the order of the list.
NextInputs ==
    { Transaction(nproc + 1, ts, s[1], s[2], s[3], s[4], s[5], nproc + 1) :
        s \in LedgerShapes,
        ts \in IF nproc = 0 THEN {0} ELSE {t.timestamp, t.timestamp + TimeStep} }

\* lines 391-395: the fiat value and the asset delta of a transaction
FiatValueNoOracle(x) ==
    IF x.type = "trade" THEN x.usd + x.fee_usd
    ELSE roundd(-(x.price * x.btc), UnitsPerBtc)

FiatValue(x) ==
    IF x.type = "trade" THEN x.usd + x.fee_usd
    ELSE roundd(-((IF x.price # 0 THEN x.price ELSE fmv(x.timestamp)) * x.btc),
                UnitsPerBtc)

Snapshot == [gains |-> gains, total_cost |-> total_cost,
             total_btc |-> total_btc, lots |-> lots]

\* the variables of the matcher and of merge, at rest while the ledger runs
MatchIdle ==
    /\ all = <<>> /\ deposits = <<>> /\ scan = <<>> /\ si = 0
    /\ all0 = <<>> /\ pairs = <<>>

MergeIdle == group = <<>> /\ merged = None

\* ------------------------------------------------------------- the ledger
\* lines 382-388
LedgerInit ==
    /\ method \in Methods
    /\ pc = "ledger"
    /\ err = ""
    /\ lots = <<>>
    /\ total_cost = 0
    /\ total_btc = 0
    /\ gains = 0
    /\ t = None
    /\ btc = 0
    /\ usd = 0
    /\ nproc = 0
    /\ pre = Snapshot
    /\ popped = <<>>

\* lines 389-400, btc > 0: push a lot, raise the cost basis
Acquire(x) ==
    /\ pc = "ledger" /\ nproc < MaxTx
    /\ x.btc > 0
    /\ ~PushRaises(lots, Lot(x.timestamp, x.btc, -FiatValue(x), x))
    /\ t' = x /\ nproc' = nproc + 1 /\ pre' = Snapshot
    /\ usd' = FiatValue(x) /\ btc' = x.btc
    /\ total_btc' = total_btc + x.btc
    /\ lots' = push(lots, Lot(x.timestamp, x.btc, -FiatValue(x), x))
    /\ total_cost' = total_cost - FiatValue(x)
    /\ popped' = <<>>
    /\ UNCHANGED <<method, pc, err, gains>>
    /\ UNCHANGED <<matchVars, mergeVars>>

\* lines 389-399, btc > 0, Lot.__cmp__ returns None inside heappush
AcquireTypeError(x) ==
    /\ pc = "ledger" /\ nproc < MaxTx
    /\ x.btc > 0
    /\ PushRaises(lots, Lot(x.timestamp, x.btc, -FiatValue(x), x))
    /\ t' = x /\ nproc' = nproc + 1 /\ pre' = Snapshot
    /\ usd' = FiatValue(x) /\ btc' = x.btc
    /\ total_btc' = total_btc + x.btc
    /\ lots' = PushNoSift(lots, Lot(x.timestamp, x.btc, -FiatValue(x), x))
    /\ pc' = "failed" /\ err' = "TypeError"
    /\ popped' = <<>>
    /\ UNCHANGED <<method, total_cost, gains>>
    /\ UNCHANGED <<matchVars, mergeVars>>

\* lines 389-397 and 401-404: a delta that is not positive; the while loop
\* is entered when there is a quantity to cover
BeginDisposal(x) ==
    /\ pc = "ledger" /\ nproc < MaxTx
    /\ ~(x.btc > 0)
    /\ t' = x /\ nproc' = nproc + 1 /\ pre' = Snapshot
    /\ usd' = FiatValue(x)
    /\ total_btc' = total_btc + x.btc
    /\ btc' = -x.btc
    /\ gains' = gains + FiatValue(x)
    /\ pc' = IF -x.btc > 0 THEN "selling" ELSE "ledger"
    /\ popped' = <<>>
    /\ UNCHANGED <<method, err, lots, total_cost>>
    /\ UNCHANGED <<matchVars, mergeVars>>

\* lines 404-410: the popped lot is consumed whole; the loop is left, and
\* the totals are printed (417-420), when nothing is left to cover
PopWhole ==
    /\ pc = "selling" /\ btc > 0 /\ Len(lots) > 0
    /\ LET lot == PopItem(lots) IN
        /\ lot.btc <= btc
        /\ popped' = <<[lot |-> lot, open |-> lots, need |-> btc,
                        gains |-> gains, total_cost |-> total_cost]>>
        /\ lots' = PopRest(lots)
        /\ gains' = gains - lot.usd
        /\ total_cost' = total_cost - lot.usd
        /\ btc' = btc - lot.btc
        /\ pc' = IF btc - lot.btc > 0 THEN "selling" ELSE "ledger"
    /\ UNCHANGED <<method, err, total_btc, t, usd, nproc, pre>>
    /\ UNCHANGED <<matchVars, mergeVars>>

\* lines 404-407 and 411-416: the popped lot is split
PopPartial ==
    /\ pc = "selling" /\ btc > 0 /\ Len(lots) > 0
    /\ LET lot == PopItem(lots)
           remaining == sell(lot, btc)
       IN
        /\ ~(lot.btc <= btc)
        /\ popped' = <<[lot |-> lot, open |-> lots, need |-> btc,
                        gains |-> gains, total_cost |-> total_cost]>>
        /\ gains' = gains - (lot.usd - remaining.usd)
        /\ total_cost' = total_cost - (lot.usd - remaining.usd)
        /\ IF PushRaises(PopRest(lots), remaining)
           THEN /\ lots' = PushNoSift(PopRest(lots), remaining)
                /\ pc' = "failed" /\ err' = "TypeError"
                /\ btc' = btc
           ELSE /\ lots' = push(PopRest(lots), remaining)
                /\ btc' = 0
                /\ pc' = "ledger"
                /\ UNCHANGED err
    /\ UNCHANGED <<method, total_btc, t, usd, nproc, pre>>
    /\ UNCHANGED <<matchVars, mergeVars>>

\* line 405 on an empty heap: heappop raises IndexError
PopEmpty ==
    /\ pc = "selling" /\ btc > 0 /\ Len(lots) = 0
    /\ pc' = "failed" /\ err' = "IndexError"
    /\ UNCHANGED <<method, lots, total_cost, total_btc, gains, t, btc, usd,
                   nproc, pre, popped>>
    /\ UNCHANGED <<matchVars, mergeVars>>

Next ==
    \/ \E x \in NextInputs : Acquire(x)
    \/ \E x \in NextInputs : AcquireTypeError(x)
    \/ \E x \in NextInputs : BeginDisposal(x)
    \/ PopWhole
    \/ PopPartial
    \/ PopEmpty

Init == LedgerInit /\ MatchIdle /\ MergeIdle

Spec == Init /\ [][Next]_vars

\* ------------------------------------------------------------- the matcher
MaxAll == 3                  \* transactions in all when the matcher starts
MaxGap == 3                  \* timestamps of neighbours differ by 0..MaxGap steps
transfer_window_hours == 24  \* default of --transfer_window_hours

\* the variables of the ledger and of merge, at rest while the matcher runs
LedgerIdle ==
    /\ method = "fifo" /\ lots = <<>> /\ total_cost = 0 /\ total_btc = 0
    /\ gains = 0 /\ t = None /\ btc = 0 /\ usd = 0 /\ nproc = 0
    /\ pre = None /\ popped = <<>>

\* the (type, btc) of the transactions the matcher is fed
MatchShapes ==
    { <<"deposit", 1>>, <<"deposit", 2>>, <<"withdraw", -1>>,
      <<"withdraw", -2>>, <<"trade", 1>> }

\* The lists all can be after line 354: sorted by Transaction.__cmp__.  The
\* k-th element has uid k; it is later than its left neighbour and has its
\* own id, or it has the timestamp and the id of the neighbour (two records
\* of one bitcoind txid, which BitcoindParser.merge_some keeps apart).
IsSorted(l) ==
    \A i \in 1..(Len(l) - 1) : TransactionCmp(l[i], l[i + 1]) <= 0

\* the element appended to the sorted list l
Following(l) ==
    IF l = <<>>
    THEN { Transaction(1, 0, s[1], s[2], 0, 0, 0, 1) : s \in MatchShapes }
    ELSE LET last == l[Len(l)] IN
         { Transaction(Len(l) + 1, last.timestamp + g * TimeStep, s[1], s[2],
                       0, 0, 0, Len(l) + 1) :
             s \in MatchShapes, g \in 0..MaxGap }
         \cup
         { Transaction(Len(l) + 1, last.timestamp, s[1], s[2], 0, 0, 0, last.id) :
             s \in { x \in MatchShapes : x[1] # "trade" /\ last.type # "trade" } }

RECURSIVE AllLists(_)
AllLists(n) ==
    IF n = 0 THEN { <<>> }
    ELSE LET shorter == AllLists(n - 1) IN
         shorter \cup
         UNION { { Append(l, x) : x \in Following(l) } :
                   l \in { y \in shorter : Len(y) = n - 1 } }

\* line 354: all has been sorted; nothing is indexed or matched yet
MatchInit ==
    /\ LedgerIdle /\ MergeIdle
    /\ all \in AllLists(MaxAll)
    /\ IsSorted(all)
    /\ all0 = all
    /\ deposits = <<>>
    /\ scan = <<>>
    /\ si = 0
    /\ pairs = <<>>
    /\ pc = "index"
    /\ err = ""

\* x == y of two Transaction objects: the same object, or __cmp__ gives 0
SameObject(x, y) == x.uid = y.uid
Equal(x, y) == SameObject(x, y) \/ TransactionCmp(x, y) = 0

\* list.index over the == of the elements: the first position that holds an
\* element equal to x, 0 when there is none
FirstEqual(list, x) ==
    IF \E i \in 1..Len(list) : Equal(list[i], x)
    THEN CHOOSE i \in 1..Len(list) :
            Equal(list[i], x) /\ \A j \in 1..(i - 1) : ~Equal(list[j], x)
    ELSE 0

\* list.remove(x) on a list that holds an element equal to x
Remove(list, x) ==
    LET i == FirstEqual(list, x) IN
    SubSeq(list, 1, i - 1) \o SubSeq(list, i + 1, Len(list))

\* deposits.get(key, ())
Get(key) == IF key \in DOMAIN deposits THEN deposits[key] ELSE <<>>

\* line 366: the candidate lies in the transfer window of the withdrawal
InWindow(candidate, w) ==
    Abs(candidate.timestamp - w.timestamp) * 3600 < transfer_window_hours * 3600

\* lines 365-366: the position in matches of the first candidate in the
\* window, 0 when the loop runs to its else
FirstInWindow(matches, w) ==
    IF \E i \in 1..Len(matches) : InWindow(matches[i], w)
    THEN CHOOSE i \in 1..Len(matches) :
            InWindow(matches[i], w) /\ \A j \in 1..(i - 1) : ~InWindow(matches[j], w)
    ELSE 0

IsWithdrawal(x) == x.type = "withdraw" /\ x.btc # 0

\* lines 356-359 and the list(all) of line 362
BuildIndex ==
    /\ pc = "index"
    /\ deposits' =
         [b \in { x.btc : x \in { y \in Range(all) : y.type = "deposit" /\ y.btc # 0 } } |->
            SelectSeq(all, LAMBDA y : y.type = "deposit" /\ y.btc = b)]
    /\ scan' = all
    /\ si' = 0
    /\ pc' = "match"
    /\ UNCHANGED <<err, all, all0, pairs, ledgerVars, mergeVars>>

\* lines 362-363: an element that is no withdrawal is passed over
ScanOther ==
    /\ pc = "match" /\ si < Len(scan)
    /\ ~IsWithdrawal(scan[si + 1])
    /\ si' = si + 1
    /\ UNCHANGED <<pc, err, all, deposits, scan, all0, pairs, ledgerVars, mergeVars>>

\* lines 362-369 and 373-375: no candidate of the withdrawal is in the window
ScanNoMatch ==
    /\ pc = "match" /\ si < Len(scan)
    /\ IsWithdrawal(scan[si + 1])
    /\ FirstInWindow(Get(-scan[si + 1].btc), scan[si + 1]) = 0
    /\ si' = si + 1
    /\ UNCHANGED <<pc, err, all, deposits, scan, all0, pairs, ledgerVars, mergeVars>>

\* lines 362-372: the first candidate in the window is accepted; all.remove
\* and matches.remove take out the first element equal to their argument,
\* and all.remove raises ValueError when there is none
ScanMatch ==
    /\ pc = "match" /\ si < Len(scan)
    /\ IsWithdrawal(scan[si + 1])
    /\ LET w == scan[si + 1]
           matches == Get(-w.btc)
           k == FirstInWindow(matches, w)
       IN
        /\ k # 0
        /\ IF FirstEqual(all, w) = 0
           THEN /\ pc' = "failed" /\ err' = "ValueError"
                /\ UNCHANGED <<all, deposits, pairs, si>>
           ELSE IF FirstEqual(Remove(all, w), matches[k]) = 0
           THEN /\ pc' = "failed" /\ err' = "ValueError"
                /\ all' = Remove(all, w)
                /\ UNCHANGED <<deposits, pairs, si>>
           ELSE /\ all' = Remove(Remove(all, w), matches[k])
                /\ deposits' = [deposits EXCEPT ![-w.btc] = Remove(matches, matches[k])]
                /\ pairs' = Append(pairs, <<w, matches[k]>>)
                /\ si' = si + 1
                /\ UNCHANGED <<pc, err>>
    /\ UNCHANGED <<scan, all0, ledgerVars, mergeVars>>

\* line 362: the copy of all is exhausted; lines 377-380 print what is left
ScanEnd ==
    /\ pc = "match" /\ si = Len(scan)
    /\ pc' = "matched"
    /\ UNCHANGED <<err, all, deposits, scan, si, all0, pairs, ledgerVars, mergeVars>>

MatchNext ==
    \/ BuildIndex
    \/ ScanOther
    \/ ScanNoMatch
    \/ ScanMatch
    \/ ScanEnd

MatchSpec == MatchInit /\ [][MatchNext]_vars

\* ------------------------------------------------------------- MtGoxParser.merge
\* In this part the attributes that can be None are sequences: <<>> is None
\* and <<v>> is the number v; a price is <<>> or the quotient <<num, den>>.
\* Fiat amounts are in units of 0.0001 dollar, the places of roundd(..., 4).
MaxGroup == 3     \* members of the group handed to merge

Value(v) == <<v>>
Truthy(a) == a # <<>> /\ a[1] # 0

Usd4(d) == d * 10000

\* a row of MtGoxParser.parse_row (lines 179-195): price, fee_usd and fee_btc
\* are passed as 0 unless the row is a fee
Row(type, b, u, fee_usd, fee_btc) ==
    [type |-> type, btc |-> Value(b), usd |-> Value(u), price |-> <<0, 1>>,
     fee_usd |-> Value(fee_usd), fee_btc |-> Value(fee_btc)]

Rows ==
    { Row("trade", Coins(1), 0, 0, 0),          \* in
      Row("trade", -Coins(1), 0, 0, 0),         \* out
      Row("trade", 0, Usd4(200), 0, 0),         \* earned
      Row("trade", 0, -Usd4(200), 0, 0),        \* spent
      Row("fee", 0, 0, 0, 1),                   \* fee, BTC file
      Row("fee", 0, 0, Usd4(1), 0),             \* fee, USD file
      Row("deposit", Coins(1) + 1, 0, 0, 0),    \* deposit
      Row("withdraw", -(Coins(1) + 1), 0, 0, 0) }  \* withdraw

\* the rows that carry a tid, the id that puts several rows into one group
\* (line 174); every other row has an id of its own (line 178)
TidRows == { r \in Rows : r.type \in {"trade", "fee"} }

\* the groups of by_date (lines 348-352): one row, or rows of one tid in the
\* order in which the files gave them
RECURSIVE TidGroups(_)
TidGroups(n) ==
    IF n = 0 THEN { <<>> }
    ELSE LET shorter == TidGroups(n - 1) IN
         shorter \cup
         { Append(g, r) : g \in { x \in shorter : Len(x) = n - 1 }, r \in TidRows }

Groups(n) == { <<r>> : r \in Rows } \cup (TidGroups(n) \ { <<>> })

MergeInit ==
    /\ LedgerIdle /\ MatchIdle
    /\ group \in Groups(MaxGroup)
    /\ merged = None
    /\ pc = "merge"
    /\ err = ""

\* line 204: Transaction(timestamp, type, None, None, None): fee_usd and
\* fee_btc take their default 0
Blank(type) ==
    [type |-> type, btc |-> <<>>, usd |-> <<>>, price |-> <<>>,
     fee_usd |-> Value(0), fee_btc |-> Value(0)]

\* lines 207-209 for one member: every attribute of the member that is
\* truthy overwrites the attribute of merged
Overlay(m, x) ==
    [type |-> m.type,
     btc |-> IF Truthy(x.btc) THEN x.btc ELSE m.btc,
     usd |-> IF Truthy(x.usd) THEN x.usd ELSE m.usd,
     fee_usd |-> IF Truthy(x.fee_usd) THEN x.fee_usd ELSE m.fee_usd,
     fee_btc |-> IF Truthy(x.fee_btc) THEN x.fee_btc ELSE m.fee_btc,
     price |-> IF Truthy(x.price) THEN x.price ELSE m.price]

\* lines 206-209
RECURSIVE OverlayAll(_, _)
OverlayAll(m, transactions) ==
    IF transactions = <<>> THEN m
    ELSE OverlayAll(Overlay(m, Head(transactions)), Tail(transactions))

\* line 211: the price is derived when the first member is a trade
DerivesPrice(transactions, m) ==
    ~Truthy(m.price) /\ transactions[1].type = "trade"

\* line 212: merged.usd / merged.btc raises TypeError on a None operand
\* (btc, when set, is not zero)
PriceRaises(m) == m.usd = <<>> \/ m.btc = <<>>

WithPrice(m) == [m EXCEPT !.price = <<m.usd[1], m.btc[1]>>]

\* roundd(num / den, 4) for a den of either sign
RoundQuot(num, den) == IF den < 0 THEN roundd(-num, -den) ELSE roundd(num, den)

\* lines 213-217 on a merged transaction whose price is settled; line 217
\* raises TypeError when btc is None
FeeRaises(m) ==
    ~Truthy(m.fee_usd) /\ Truthy(m.fee_btc) /\ ~Truthy(m.price) /\ m.btc = <<>>

WithFee(m) ==
    IF ~Truthy(m.fee_usd) /\ Truthy(m.fee_btc)
    THEN IF Truthy(m.price)
         THEN [m EXCEPT !.fee_usd =
                  Value(RoundQuot(m.price[1] * m.fee_btc[1], m.price[2]))]
         ELSE [m EXCEPT !.btc = Value(m.btc[1] + m.fee_btc[1])]
    ELSE m

\* lines 201-203: the types of the members, fee left out
Types(transactions) == { x.type : x \in Range(transactions) } \ {"fee"}

\* lines 199-200: a group of one is returned as it is
MergeSingle ==
    /\ pc = "merge" /\ Len(group) = 1
    /\ merged' = group[1]
    /\ pc' = "merged"
    /\ UNCHANGED <<err, group, ledgerVars, matchVars>>

\* lines 201-224 running to the return; list(types)[0] is any of the types
MergeMany ==
    /\ pc = "merge" /\ Len(group) > 1
    /\ \E type \in Types(group) :
        LET m == OverlayAll(Blank(type), group) IN
        /\ DerivesPrice(group, m) => ~PriceRaises(m)
        /\ LET priced == IF DerivesPrice(group, m) THEN WithPrice(m) ELSE m IN
            /\ ~FeeRaises(priced)
            /\ merged' = WithFee(priced)
    /\ pc' = "merged"
    /\ UNCHANGED <<err, group, ledgerVars, matchVars>>

\* lines 204 and 210-223: list(types)[0] raises IndexError on a group of
\* fees only; the division and the += raise TypeError on None, and the
\* exception is raised again after the group is printed
MergeRaises ==
    /\ pc = "merge" /\ Len(group) > 1
    /\ \/ /\ Types(group) = {}
          /\ err' = "IndexError"
       \/ /\ \E type \in Types(group) :
                LET m == OverlayAll(Blank(type), group) IN
                \/ DerivesPrice(group, m) /\ PriceRaises(m)
                \/ ~DerivesPrice(group, m) /\ FeeRaises(m)
          /\ err' = "TypeError"
    /\ pc' = "failed"
    /\ UNCHANGED <<merged, group, ledgerVars, matchVars>>

MergeNext ==
    \/ MergeSingle
    \/ MergeMany
    \/ MergeRaises

MergeSpec == MergeInit /\ [][MergeNext]_vars

\* ------------------------------------------------------------- merge claims
\* the non-zero values the members carry for an attribute
Carried(transactions, attr) ==
    { x[attr][1] : x \in { y \in Range(transactions) : Truthy(y[attr]) } }

\* C8: merging a group of several members sets each of btc, usd, fee_usd and
\* fee_btc from a member that carries a non-zero value for it and, no member
\* carrying a price, leaves the price at usd / btc whenever the merged usd
\* and btc are both non-zero, whatever the order of the members.
C8_MergeUnionsAndDerivesPrice ==
    (pc = "merged" /\ Len(group) > 1) =>
        /\ \A attr \in {"btc", "usd", "fee_usd", "fee_btc"} :
              Carried(group, attr) # {} =>
                  (merged[attr] # <<>> /\ merged[attr][1] \in Carried(group, attr))
        /\ (Truthy(merged.usd) /\ Truthy(merged.btc)) =>
              /\ merged.price # <<>>
              /\ merged.price[1] * merged.btc[1] = merged.usd[1] * merged.price[2]

\* what holds of the code: the statement of C8 for the groups whose first
\* member is a trade
C8_HoldsWhenTradeFirst ==
    group[1].type = "trade" => C8_MergeUnionsAndDerivesPrice

\* ------------------------------------------------------------- matcher claims
Uids(list) == { x.uid : x \in Range(list) }

PairedUids == UNION { {pairs[i][1].uid, pairs[i][2].uid} : i \in DOMAIN pairs }

\* C9: every match takes out of all the withdrawal scanned and the deposit
\* accepted for it and nothing else: all is all0 without the paired
\* transactions, also among transactions that share timestamp and id, and no
\* deposit is paired twice.
C9_OnlyThePairRemoved ==
    pc \in {"match", "matched"} =>
        /\ all = SelectSeq(all0, LAMBDA x : x.uid \notin PairedUids)
        /\ \A i, j \in DOMAIN pairs :
              i # j => pairs[i][2].uid # pairs[j][2].uid

\* a withdrawal w and a deposit d of the opposite amount, the only deposit
\* or withdrawal of that magnitude in the list
LonePair(list, w, d) ==
    /\ w.type = "withdraw" /\ d.type = "deposit"
    /\ d.btc = -w.btc /\ w.btc # 0
    /\ \A x \in Range(list) :
          (x.type \in {"deposit", "withdraw"} /\ Abs(x.btc) = Abs(w.btc)) =>
              x.uid \in {w.uid, d.uid}

\* C4: of a lone withdrawal and deposit of opposite amounts, both are removed
\* before the ledger runs when their timestamps differ by less than the
\* transfer window (24 hours), and both are kept when they do not.
C4_LonePairRemovedInWindow ==
    pc = "matched" =>
        \A w, d \in Range(all0) :
            LonePair(all0, w, d) =>
                IF Abs(d.timestamp - w.timestamp) < transfer_window_hours
                THEN w.uid \notin Uids(all) /\ d.uid \notin Uids(all)
                ELSE w.uid \in Uids(all) /\ d.uid \in Uids(all)

\* no two transactions of the list share timestamp and id
NoSharedKey(list) ==
    \A i, j \in DOMAIN list : i # j => TransactionCmp(list[i], list[j]) # 0

\* what holds of the code: the statements of C9 and C4 for the lists in
\* which no two transactions share timestamp and id
C9_HoldsWithoutSharedKey == NoSharedKey(all0) => C9_OnlyThePairRemoved
C4_HoldsWithoutSharedKey == NoSharedKey(all0) => C4_LonePairRemovedInWindow

\* ------------------------------------------------------------- ledger claims
RECURSIVE SumBtc(_)
SumBtc(heap) == IF heap = <<>> THEN 0 ELSE Head(heap).btc + SumBtc(Tail(heap))

RECURSIVE SumUsd(_)
SumUsd(heap) == IF heap = <<>> THEN 0 ELSE Head(heap).usd + SumUsd(Tail(heap))

\* a transaction has been processed to its end and the run goes on
Processed == pc = "ledger" /\ nproc > 0

\* C1: after every fully processed transaction (acquisitions, covered
\* disposals with whole and split lots, under fifo or lifo) the btc of the
\* open lots sum to total_btc and their usd sum to total_cost.
C1_TotalsMatchLots ==
    (Processed /\ method \in {"fifo", "lifo"}) =>
        (SumBtc(lots) = total_btc /\ SumUsd(lots) = total_cost)

\* C1 witness: a disposal has split a lot whose basis does not divide evenly
\* while another lot stays open.
C1_Witness ==
    /\ Processed /\ method = "lifo" /\ Len(lots) >= 2 /\ popped # <<>>
    /\ popped[1].lot.btc > popped[1].need
    /\ (popped[1].lot.usd * popped[1].need) % popped[1].lot.btc # 0
    /\ SumUsd(lots) = total_cost /\ total_cost > 0

\* C2: the lot popped in a disposal has, under fifo, the earliest timestamp
\* of the open lots and, under lifo, the latest; a lot pushed back after a
\* partial sale keeps its timestamp and its origin transaction.
C2_PopOrder ==
    popped # <<>> =>
        LET p == popped[1] IN
        /\ method = "fifo" =>
              \A l \in Range(p.open) : p.lot.timestamp <= l.timestamp
        /\ method = "lifo" =>
              \A l \in Range(p.open) : p.lot.timestamp >= l.timestamp
        /\ p.lot \in Range(p.open)
        /\ (p.lot.btc > p.need /\ err = "") =>
              \E l \in Range(lots) :
                  /\ l.timestamp = p.lot.timestamp
                  /\ l.transaction = p.lot.transaction
                  /\ l.btc = p.lot.btc - p.need

\* C2 witness: a lot reduced by an earlier partial sale is popped again, ahead
\* of an open lot with another timestamp.
C2_Witness ==
    /\ popped # <<>> /\ method \in {"fifo", "lifo"}
    /\ popped[1].lot.btc < popped[1].lot.transaction.btc
    /\ \E l \in Range(popped[1].open) : l.timestamp # popped[1].lot.timestamp

\* C3: a disposal larger than the open lots ends in a fatal error and leaves
\* the running totals and the lots as they were before the disposal began.
C3_FailedDisposalAtomic ==
    err = "IndexError" =>
        /\ pc = "failed"
        /\ gains = pre.gains
        /\ total_cost = pre.total_cost
        /\ total_btc = pre.total_btc
        /\ lots = pre.lots

\* the cost basis a pop takes out: the whole lot, or price * quantity
\* rounded to cents for a split lot
Removed(p) ==
    IF p.lot.btc <= p.need THEN p.lot.usd
    ELSE roundd(p.lot.usd * p.need, p.lot.btc)

IsLotOf(l, b, u) == l.btc = b /\ l.usd = u

\* C5: a covered disposal raises gains by its proceeds minus the fall of
\* total_cost; each pop takes out the whole usd of the lot or, for a split
\* lot, round(lot.price * quantity, 2).  Lots 1@100 then 1@200 and a disposal
\* of 1.5 for 450 give gain 250 and a lot 0.5 with basis 100 under fifo, and
\* gain 200 and a lot 0.5 with basis 50 under lifo.
C5_GainIsProceedsMinusBasis ==
    /\ (Processed /\ t.btc < 0) =>
          gains - pre.gains = usd - (pre.total_cost - total_cost)
    /\ (popped # <<>> /\ err = "") =>
          /\ total_cost = popped[1].total_cost - Removed(popped[1])
          /\ gains = popped[1].gains - Removed(popped[1])
    /\ ( /\ Processed /\ t.btc = -(Coins(1) + 1) /\ usd = Usd(450)
         /\ Len(pre.lots) = 2 /\ pre.gains = 0
         /\ \E a, b \in Range(pre.lots) :
               /\ IsLotOf(a, Coins(1), Usd(100))
               /\ IsLotOf(b, Coins(1), Usd(200))
               /\ a.timestamp < b.timestamp ) =>
          /\ method = "fifo" =>
                (gains = Usd(250) /\ Len(lots) = 1 /\ IsLotOf(lots[1], 1, Usd(100)))
          /\ method = "lifo" =>
                (gains = Usd(200) /\ Len(lots) = 1 /\ IsLotOf(lots[1], 1, Usd(50)))

\* C5 witness: the lifo scenario has run to its end.
C5_Witness ==
    /\ Processed /\ method = "lifo" /\ t.btc = -(Coins(1) + 1) /\ usd = Usd(450)
    /\ Len(pre.lots) = 2 /\ pre.gains = 0 /\ pre.total_cost = Usd(300)
    /\ pre.lots[1].timestamp # pre.lots[2].timestamp
    /\ gains = Usd(200) /\ Len(lots) = 1 /\ IsLotOf(lots[1], 1, Usd(50))

\* the price of lot a is below (above) the price of lot b: usd/btc compared
\* by cross multiplication, the quantities being positive
PriceLess(a, b) == a.usd * b.btc < b.usd * a.btc

\* C6: with the method lowest (highest) the heap orders the open lots by
\* price: pushes and pops run to their end, and every lot popped has the
\* lowest (highest) price of the open lots.
C6_PriceOrder ==
    method \in {"lowest", "highest"} =>
        /\ err # "TypeError"
        /\ popped # <<>> =>
              \A l \in Range(popped[1].open) :
                  IF method = "lowest" THEN ~PriceLess(l, popped[1].lot)
                  ELSE ~PriceLess(popped[1].lot, l)

\* the price a non-trade transaction is booked at
PriceUsed(x) == IF x.price # 0 THEN x.price ELSE fmv(x.timestamp)

\* price * quantity in cents, the price being per coin
Valued(price, quantity) == roundd(price * quantity, UnitsPerBtc)

\* C7: a non-trade transaction is booked at its own price if set, else at
\* the oracle's price of its date: a deposit of q makes a lot of cost
\* price_used * q, a withdrawal of q is a disposal with proceeds
\* price_used * q.  A deposit of 1 coin without price on a date priced 300
\* makes a lot of cost 300, and its full disposal for 350 realizes 50.
C7_NonTradeBookedAtPriceUsed ==
    /\ (Processed /\ t.type # "trade" /\ t.btc > 0) =>
          /\ total_cost = pre.total_cost + Valued(PriceUsed(t), t.btc)
          /\ \E l \in Range(lots) :
                l.transaction = t /\ IsLotOf(l, t.btc, Valued(PriceUsed(t), t.btc))
    /\ (nproc > 0 /\ t.type # "trade" /\ t.btc < 0) =>
          /\ usd = Valued(PriceUsed(t), -t.btc)
          /\ Processed =>
                gains = pre.gains + Valued(PriceUsed(t), -t.btc)
                          - (pre.total_cost - total_cost)
    /\ (Processed /\ t.type = "deposit" /\ t.btc = Coins(1) /\ t.price = 0
          /\ DateOf(t.timestamp) = 0) =>
          \E l \in Range(lots) : l.transaction = t /\ l.usd = Usd(300)
    /\ (Processed /\ t.btc = -Coins(1) /\ usd = Usd(350) /\ Len(pre.lots) = 1
          /\ pre.lots[1].transaction.type = "deposit"
          /\ pre.lots[1].transaction.price = 0
          /\ pre.lots[1].btc = Coins(1)
          /\ DateOf(pre.lots[1].timestamp) = 0) =>
          gains = pre.gains + Usd(50)

\* C7 witness: the deposit priced by the oracle at 300 has been disposed of
\* whole for 350.
C7_Witness ==
    /\ Processed /\ t.btc = -Coins(1) /\ usd = Usd(350) /\ Len(pre.lots) = 1
    /\ pre.lots[1].transaction.type = "deposit"
    /\ pre.lots[1].transaction.price = 0
    /\ pre.lots[1].usd = Usd(300)
    /\ pre.gains = 0 /\ gains = Usd(50) /\ lots = <<>>

\* C10: gains change only in a transaction with a negative delta: one with a
\* positive delta pushes a lot and raises total_cost, one with delta 0 leaves
\* gains, total_cost and the lots as they are.
C10_GainsOnlyOnDisposal ==
    Processed =>
        /\ t.btc > 0 =>
              /\ gains = pre.gains
              /\ total_cost = pre.total_cost - usd
              /\ Len(lots) = Len(pre.lots) + 1
        /\ t.btc = 0 =>
              /\ gains = pre.gains
              /\ total_cost = pre.total_cost
              /\ lots = pre.lots

====
